---- MODULE Spec2Model ----
(***************************************************************************)
(* A model of bytehub's FeatureStore (src/bytehub/store.py): the feature   *)
(* catalog (namespaces and features), the identifier resolver, kwargs      *)
(* validation, and the save/load/last paths to the per-feature backends.   *)
(*                                                                         *)
(* Python strings are sequences of one-character strings, so that          *)
(* str.split("/") and "/".join are computed, not assumed.  Python's None   *)
(* is the one-element sequence <<"None">>, whose element is no character.  *)
(***************************************************************************)
EXTENDS Integers, Sequences, FiniteSets, TLC

VARIABLES
    namespaces,   \* the Namespace table of the catalog: a set of rows
    features,     \* the Feature table of the catalog: a set of rows
    op,           \* the public method called last
    result,       \* how that call ended: "ok" or the error it raised
    pc,           \* position of the running load/save/last call
    call,         \* that call's arguments and locals
    sessions,     \* catalog sessions (session_scope blocks) open right now
    backendLog,   \* backend calls made by the running call, in order
    backend,      \* the points the features' storage backends hold
    input,        \* argument of a pure function under check
    output        \* its results

vars == <<namespaces, features, op, result, pc, call, sessions, backendLog,
          backend, input, output>>

catalogVars == <<namespaces, features>>
ioVars == <<pc, call, sessions, backendLog, backend>>
pureVars == <<input, output>>

-----------------------------------------------------------------------------
(* Bounds of the model.                                                    *)

\* Most "/"-separated segments of a string given to the resolver.
MaxSegs == 3
\* Most rows the catalog holds (both tables together).
MaxRows == 3
\* Most features in the list given to load_dataframe or last.
MaxList == 2
\* The timestamps of the stored series are 1..MaxTime.
MaxTime == 2
\* The recording times (created_time, time_travel) are 1..MaxCreated.
MaxCreated == 2
\* Most saves before a series is read back.
MaxSaves == 2

-----------------------------------------------------------------------------
(* Python values.                                                          *)

None == <<"None">>
Sep == "/"
EmptyStr == <<>>

\* bool(x) of a str or None: None and "" are falsy.
Truthy(x) == x # None /\ x # EmptyStr

\* c in s
Contains(s, c) == \E i \in 1..Len(s) : s[i] = c

\* The position of the first c in s, 0 when there is none.
RECURSIVE FirstIndex(_, _, _)
FirstIndex(s, c, i) ==
    IF i > Len(s) THEN 0
    ELSE IF s[i] = c THEN i
    ELSE FirstIndex(s, c, i + 1)

\* s.split("/"): the segments between separators, empty ones kept.
RECURSIVE Split(_)
Split(s) ==
    LET i == FirstIndex(s, Sep, 1) IN
    IF i = 0 THEN <<s>>
    ELSE <<SubSeq(s, 1, i - 1)>> \o Split(SubSeq(s, i + 1, Len(s)))

\* "/".join(parts)
RECURSIVE Join(_)
Join(parts) ==
    IF parts = <<>> THEN EmptyStr
    ELSE IF Len(parts) = 1 THEN parts[1]
    ELSE parts[1] \o <<Sep>> \o Join(Tail(parts))

\* f"{namespace}/{name}"
Qualified(namespace, name) == namespace \o <<Sep>> \o name

-----------------------------------------------------------------------------
(* Input strings.                                                          *)

Segments == {EmptyStr, <<"a">>}

RECURSIVE SegSeqs(_)
SegSeqs(n) ==
    IF n = 0 THEN {<<>>}
    ELSE LET shorter == SegSeqs(n - 1) IN
         shorter \cup {<<s>> \o q : s \in Segments,
                                  q \in {x \in shorter : Len(x) = n - 1}}

\* Every string of one to n segments over Segments.
Strings(n) == {Join(q) : q \in SegSeqs(n) \ {<<>>}}

\* The names the catalog methods are called with: "", "a", "b", "/a" and "a/a".
Names == {EmptyStr, <<"a">>, <<"b">>, <<Sep, "a">>, <<"a", Sep, "a">>}

\* What a caller passes as the optional namespace argument: nothing, "a" or "b".
NsArgs == {None, <<"a">>, <<"b">>}

-----------------------------------------------------------------------------
(* Identifier Resolver: _split_name and _unpack_list.                      *)

\* A plausible slip: a qualified name overrides the namespace it is given.
split_name_no_guard(namespace, name) ==
    IF Truthy(name) /\ Contains(name, Sep)
    THEN LET parts == Split(name) IN <<parts[1], Join(Tail(parts))>>
    ELSE <<namespace, name>>

\* A plausible slip: only the second segment is kept as the name.
split_name_first_only(namespace, name) ==
    IF ~Truthy(namespace) /\ Truthy(name) /\ Contains(name, Sep)
    THEN LET parts == Split(name) IN <<parts[1], parts[2]>>
    ELSE <<namespace, name>>

_split_name(namespace, name) ==
    IF ~Truthy(namespace) /\ Truthy(name) /\ Contains(name, Sep)
    THEN LET parts == Split(name) IN <<parts[1], Join(Tail(parts))>>
    ELSE <<namespace, name>>

\* The objects _unpack_list is given.
StrObj(s) == [kind |-> "str", s |-> s]
\* A DataFrame: whether it has a name / a namespace column, and its rows.
DfObj(hasName, hasNs, rows) ==
    [kind |-> "df", hasName |-> hasName, hasNs |-> hasNs, rows |-> rows]
\* A dict: d.get(k) is None for a key it lacks.
DictObj(namespace, name) ==
    [kind |-> "dict", namespace |-> namespace, name |-> name]
ListObj(items) == [kind |-> "list", items |-> items]
OtherObj == [kind |-> "other"]

Pairs(ps) == [ok |-> TRUE, pairs |-> ps]
Raise(e) == [ok |-> FALSE, error |-> e]

\* A plausible slip: the table's namespace column is not read.
unpack_row_default(df, row, namespace) == <<namespace, row[2]>>

\* row.get("namespace", namespace), row.get("name")
unpack_row(df, row, namespace) ==
    <<IF df.hasNs THEN row[1] ELSE namespace, row[2]>>

unpack_item(item, namespace) ==
    IF item.kind = "str" THEN _split_name(namespace, item.s)
    ELSE _split_name(item.namespace, item.name)

\* A plausible slip: a list element of another type is skipped, and the pairs
\* of the other elements are returned.
unpack_list_skip(obj, namespace) ==
    IF obj.kind = "str" THEN Pairs(<<_split_name(namespace, obj.s)>>)
    ELSE IF obj.kind = "df" THEN
        IF ~obj.hasName THEN Raise("InvalidInput")
        ELSE Pairs([i \in 1..Len(obj.rows) |->
                        unpack_row(obj, obj.rows[i], namespace)])
    ELSE IF obj.kind = "list" THEN
        LET kept == SelectSeq(obj.items,
                              LAMBDA item : item.kind \in {"str", "dict"}) IN
        Pairs([i \in 1..Len(kept) |-> unpack_item(kept[i], namespace)])
    ELSE Raise("InvalidInput")

_unpack_list(obj, namespace) ==
    IF obj.kind = "str" THEN Pairs(<<_split_name(namespace, obj.s)>>)
    ELSE IF obj.kind = "df" THEN
        IF ~obj.hasName THEN Raise("InvalidInput")
        ELSE Pairs([i \in 1..Len(obj.rows) |->
                        unpack_row(obj, obj.rows[i], namespace)])
    ELSE IF obj.kind = "list" THEN
        IF \E i \in 1..Len(obj.items) : obj.items[i].kind \notin {"str", "dict"}
        THEN Raise("InvalidInput")
        ELSE Pairs([i \in 1..Len(obj.items) |->
                        unpack_item(obj.items[i], namespace)])
    ELSE Raise("InvalidInput")

-----------------------------------------------------------------------------
(* Argument Validator.                                                     *)

\* A plausible slip: the mandatory keys are checked before the unknown ones.
validate_mandatory_first(args, valid, mandatory) ==
    IF \E k \in mandatory : k \notin DOMAIN args THEN "MissingArgument"
    ELSE IF \E k \in DOMAIN args : k \notin valid THEN "InvalidArgument"
    ELSE "ok"

\* The first loop raises on an unknown key, the second on a missing one.
_validate_kwargs(args, valid, mandatory) ==
    IF \E k \in DOMAIN args : k \notin valid THEN "InvalidArgument"
    ELSE IF \E k \in mandatory : k \notin DOMAIN args THEN "MissingArgument"
    ELSE "ok"

\* The valid=[...] and mandatory=[...] lists of the public methods.
CreateNamespaceValid == {"description", "url", "storage_options", "meta"}
CreateNamespaceMandatory == {"url"}
\* A plausible slip: the list of create_namespace is reused, url included.
update_valid_with_url == {"description", "url", "storage_options", "meta"}
UpdateNamespaceValid == {"description", "storage_options", "meta"}
CreateFeatureValid == {"description", "meta", "partition"}
UpdateFeatureValid == {"description", "meta"}
ListFeaturesValid == {"name", "namespace", "regex"}

\* The keyword options callers pass: every subset of the given keys, each with
\* the one value "v".  "bogus" is a key no method recognises.
KwargsOver(keys) == UNION {[K -> {"v"}] : K \in SUBSET keys}
NamespaceKwargs == KwargsOver({"url", "bogus"})
FeatureKwargs == KwargsOver({"bogus"})

-----------------------------------------------------------------------------
(* Catalog Store: the generic operations over model.Namespace and          *)
(* model.Feature.  A row is a function from column names to values; a      *)
(* column the row was never given is absent from its domain.               *)

Table(cls) == IF cls = "Namespace" THEN namespaces ELSE features

\* The value filter_by(namespace=...) compares: Feature.namespace, and for a
\* Namespace its own name.
RowNamespace(cls, r) == IF cls = "Namespace" THEN r.name ELSE r.namespace

\* The primary key of a row.
RowKey(cls, r) == IF cls = "Namespace" THEN <<r.name>> ELSE <<r.namespace, r.name>>

\* session.query(cls), filter_by(namespace=...) if namespace, filter_by(name=...)
\* if name.
Query(cls, namespace, name) ==
    {r \in Table(cls) :
        /\ Truthy(namespace) => RowNamespace(cls, r) = namespace
        /\ Truthy(name) => r.name = name}

\* A plausible slip: the name filter is applied where the namespace filter belongs.
list_by_name(cls, namespace, name) ==
    LET sp == _split_name(namespace, name) IN
    {r \in Table(cls) :
        /\ Truthy(sp[1]) => r.name = sp[1]
        /\ Truthy(sp[2]) => r.name = sp[2]}

\* _list without a regex: the rows the query returns.
_list(cls, namespace, name) ==
    LET sp == _split_name(namespace, name) IN Query(cls, sp[1], sp[2])

_exists(cls, namespace, name) == _list(cls, namespace, name) # {}

\* How a catalog call ends: the two tables and "ok" or the error raised.
Outcome(ns, fs, res) == [namespaces |-> ns, features |-> fs, result |-> res]
Failed(res) == Outcome(namespaces, features, res)
WithTable(cls, rows) ==
    IF cls = "Namespace" THEN Outcome(rows, features, "ok")
    ELSE Outcome(namespaces, rows, "ok")

\* one_or_none() raises when several rows match; "not obj" raises when none does.
_delete(cls, namespace, name) ==
    LET sp == _split_name(namespace, name)
        found == Query(cls, sp[1], sp[2]) IN
    IF Cardinality(found) > 1 THEN Failed("MultipleResultsFound")
    ELSE IF found = {} THEN Failed("NotFound")
    ELSE WithTable(cls, Table(cls) \ found)

\* obj.update_from_dict(payload): the payload's columns overwrite the row's.
update_from_dict(row, payload) ==
    [k \in DOMAIN row \cup DOMAIN payload |->
        IF k \in DOMAIN payload THEN payload[k] ELSE row[k]]

\* A plausible slip: first() in place of one_or_none(), any of several
\* matching rows is taken.
update_first(cls, namespace, name, payload) ==
    LET sp == _split_name(namespace, name)
        found == Query(cls, sp[1], sp[2]) IN
    IF found = {} THEN Failed("NotFound")
    ELSE LET r == CHOOSE x \in found : TRUE IN
         WithTable(cls, (Table(cls) \ {r}) \cup {update_from_dict(r, payload)})

_update(cls, namespace, name, payload) ==
    LET sp == _split_name(namespace, name)
        found == Query(cls, sp[1], sp[2]) IN
    IF Cardinality(found) > 1 THEN Failed("MultipleResultsFound")
    ELSE IF found = {} THEN Failed("NotFound")
    ELSE WithTable(cls, (Table(cls) \ found)
                        \cup {update_from_dict(r, payload) : r \in found})

\* session.add(obj) and the commit that ends the session: the backing store
\* refuses a second row with the same key.  Whether it refuses a key holding
\* None is the schema's choice, so both outcomes are kept.
Insert(cls, row) ==
    IF \E r \in Table(cls) : RowKey(cls, r) = RowKey(cls, row)
    THEN {Failed("AlreadyExists")}
    ELSE {WithTable(cls, Table(cls) \cup {row})}
         \cup (IF \E i \in 1..Len(RowKey(cls, row)) : RowKey(cls, row)[i] = None
               THEN {Failed("IntegrityError")} ELSE {})

\* cls() is a row with no column set.
NewRow == [k \in {} |-> "v"]

_create(cls, namespace, name, payload) ==
    IF cls = "Namespace"
    THEN Insert(cls, update_from_dict(NewRow,
                        update_from_dict(payload, [name |-> name])))
    ELSE LET sp == _split_name(namespace, name) IN
         IF ~_exists("Namespace", sp[1], None)
         THEN {Failed("NamespaceNotFound")}
         ELSE Insert(cls, update_from_dict(NewRow,
                        update_from_dict(payload,
                            [name |-> sp[2], namespace |-> sp[1]])))

-----------------------------------------------------------------------------
(* Feature Store: the public catalog methods, one action each.             *)

RowCount(o) == Cardinality(o.namespaces) + Cardinality(o.features)

\* The call returns or raises: the tables and the outcome are as o says.
\* A call that would grow the catalog past MaxRows is left out of the model.
Return(method, o) ==
    /\ RowCount(o) > Cardinality(namespaces) + Cardinality(features)
          => RowCount(o) <= MaxRows
    /\ namespaces' = o.namespaces
    /\ features' = o.features
    /\ op' = method
    /\ result' = o.result
    /\ UNCHANGED <<ioVars, pureVars>>

create_namespace(name, kwargs) ==
    LET v == _validate_kwargs(kwargs, CreateNamespaceValid,
                              CreateNamespaceMandatory) IN
    \E o \in (IF v # "ok" THEN {Failed(v)}
              ELSE _create("Namespace", None, name, kwargs)) :
        Return("create_namespace", o)

update_namespace(name, kwargs) ==
    LET v == _validate_kwargs(kwargs, UpdateNamespaceValid, {}) IN
    Return("update_namespace",
           IF v # "ok" THEN Failed(v)
           ELSE _update("Namespace", None, name, kwargs))

\* list_features(namespace=..., name=...): kwargs validated, then _list.
list_features(namespace, name) == _list("Feature", namespace, name)

\* A plausible slip: the check for remaining features is left out.
delete_namespace_unchecked(name) ==
    Return("delete_namespace", _delete("Namespace", None, name))

delete_namespace(name) ==
    Return("delete_namespace",
           IF list_features(name, None) # {} THEN Failed("NonEmptyNamespace")
           ELSE _delete("Namespace", None, name))

create_feature(name, namespace, kwargs) ==
    LET v == _validate_kwargs(kwargs, CreateFeatureValid, {}) IN
    \E o \in (IF v # "ok" THEN {Failed(v)}
              ELSE _create("Feature", namespace, name, kwargs)) :
        Return("create_feature", o)

delete_feature(name, namespace) ==
    Return("delete_feature", _delete("Feature", namespace, name))

update_feature(name, namespace, kwargs) ==
    LET v == _validate_kwargs(kwargs, UpdateFeatureValid, {}) IN
    Return("update_feature",
           IF v # "ok" THEN Failed(v)
           ELSE _update("Feature", namespace, name, kwargs))

\* Values of the variables a specification does not use.
Idle == [kind |-> "idle"]
IoIdle ==
    /\ pc = "idle" /\ call = Idle /\ sessions = 0 /\ backendLog = <<>>
    /\ backend = Idle
PureIdle == input = Idle /\ output = Idle

\* FeatureStore(): a new store over an empty catalog.
Init ==
    /\ namespaces = {}
    /\ features = {}
    /\ op = "init"
    /\ result = "ok"
    /\ IoIdle
    /\ PureIdle

Next ==
    \/ \E name \in Names, kwargs \in NamespaceKwargs :
           create_namespace(name, kwargs)
    \/ \E name \in Names, kwargs \in NamespaceKwargs :
           update_namespace(name, kwargs)
    \/ \E name \in Names : delete_namespace(name)
    \/ \E name \in Names, namespace \in NsArgs, kwargs \in FeatureKwargs :
           create_feature(name, namespace, kwargs)
    \/ \E name \in Names, namespace \in NsArgs : delete_feature(name, namespace)
    \/ \E name \in Names, namespace \in NsArgs, kwargs \in FeatureKwargs :
           update_feature(name, namespace, kwargs)

Spec == Init /\ [][Next]_vars

-----------------------------------------------------------------------------
(* Properties of the catalog, checked under Spec.                          *)

NamespaceNames == {n.name : n \in namespaces}
CatalogUnchanged == namespaces' = namespaces /\ features' = features

\* C1 (as claimed): every Feature row's namespace is the name of a Namespace
\* row that exists.
C1_ReferentialIntegrity ==
    \A f \in features : f.namespace \in NamespaceNames

\* C2 (as claimed): create_feature with recognised options whose resolved
\* namespace (the explicit one, else the name's first segment, else none) is
\* not the name of an existing Namespace fails with the namespace-not-found
\* error and leaves the Feature rows as they were.
C2_CreateFeatureNeedsNamespace ==
    [][op' = "create_feature" =>
        \A name \in Names, namespace \in NsArgs, kwargs \in FeatureKwargs :
          (/\ DOMAIN kwargs \subseteq CreateFeatureValid
           /\ _split_name(namespace, name)[1] \notin NamespaceNames)
          => \/ (result' = "NamespaceNotFound" /\ features' = features)
             \/ ~create_feature(name, namespace, kwargs)]_vars

\* C3: delete_namespace(name) on a namespace that a Feature references fails
\* with the non-empty-namespace error and changes no Namespace or Feature row.
C3_DeleteNonEmptyNamespace ==
    [][op' = "delete_namespace" =>
        \A name \in Names :
          (\E f \in features : f.namespace = name)
          => \/ (result' = "NonEmptyNamespace" /\ CatalogUnchanged)
             \/ ~delete_namespace(name)]_vars

\* A delete_namespace of a namespace that exists and holds a feature has
\* been refused.
C3_Witness ==
    /\ op = "delete_namespace"
    /\ result = "NonEmptyNamespace"
    /\ \E n \in namespaces, f \in features : f.namespace = n.name

\* C8 (as claimed): create_namespace without url fails with the
\* missing-argument error, and with an option outside {description, url,
\* storage_options, meta} fails with the invalid-argument error; either way
\* the catalog is unchanged.
C8_Original ==
    [][op' = "create_namespace" =>
        \A name \in Names, kwargs \in NamespaceKwargs :
          /\ "url" \notin DOMAIN kwargs
               => \/ (result' = "MissingArgument" /\ CatalogUnchanged)
                  \/ ~create_namespace(name, kwargs)
          /\ ~(DOMAIN kwargs \subseteq CreateNamespaceValid)
               => \/ (result' = "InvalidArgument" /\ CatalogUnchanged)
                  \/ ~create_namespace(name, kwargs)]_vars

\* C8 (amended): an option outside the recognised ones makes create_namespace
\* fail with the invalid-argument error; with only recognised options and no
\* url it fails with the missing-argument error; either way the catalog is
\* unchanged.
C8_ValidateCreateNamespace ==
    [][op' = "create_namespace" =>
        \A name \in Names, kwargs \in NamespaceKwargs :
          /\ ~(DOMAIN kwargs \subseteq CreateNamespaceValid)
               => \/ (result' = "InvalidArgument" /\ CatalogUnchanged)
                  \/ ~create_namespace(name, kwargs)
          /\ (/\ DOMAIN kwargs \subseteq CreateNamespaceValid
              /\ "url" \notin DOMAIN kwargs)
               => \/ (result' = "MissingArgument" /\ CatalogUnchanged)
                  \/ ~create_namespace(name, kwargs)]_vars

\* A create_namespace without url has been refused on a catalog that already
\* holds a namespace.
C8_Witness ==
    /\ op = "create_namespace"
    /\ result = "MissingArgument"
    /\ namespaces # {}

-----------------------------------------------------------------------------
(* The Identifier Resolver on its own: one (namespace, name) is drawn and   *)
(* _unpack_list is applied to each way of writing it.                      *)

ResolveNames == Strings(MaxSegs)
ResolveDefaults == {None} \cup {s \in Strings(1) : ~Contains(s, Sep)}

Forms == {"bare", "qualified", "table", "list_str", "list_dict"}
Pending == [kind |-> "pending"]

\* The resolver call that writes (ns, n) in the given form.
FormResult(form, ns, n) ==
    CASE form = "bare" -> _unpack_list(StrObj(n), ns)
      [] form = "qualified" -> _unpack_list(StrObj(Qualified(ns, n)), None)
      [] form = "table" -> _unpack_list(DfObj(TRUE, TRUE, <<<<ns, n>>>>), None)
      [] form = "list_str" ->
            _unpack_list(ListObj(<<StrObj(Qualified(ns, n))>>), None)
      [] form = "list_dict" -> _unpack_list(ListObj(<<DictObj(ns, n)>>), None)

InitResolve ==
    /\ input \in [namespace : ResolveDefaults, name : ResolveNames]
    /\ output = [f \in Forms |-> Pending]
    /\ namespaces = {}
    /\ features = {}
    /\ op = "init"
    /\ result = "ok"
    /\ IoIdle

\* The forms other than the bare string spell the namespace out, so they
\* need one.
Resolve(form) ==
    /\ output[form] = Pending
    /\ form # "bare" => input.namespace # None
    /\ output' = [output EXCEPT
                    ![form] = FormResult(form, input.namespace, input.name)]
    /\ UNCHANGED <<input, catalogVars, op, result, ioVars>>

NextResolve == \E form \in Forms : Resolve(form)

SpecResolve == InitResolve /\ [][NextResolve]_vars

\* What precedes the first separator of s, and what follows it.
FirstSegment(s) == SubSeq(s, 1, FirstIndex(s, Sep, 1) - 1)
AfterFirstSep(s) == SubSeq(s, FirstIndex(s, Sep, 1) + 1, Len(s))

\* C6 (as claimed): a string with one or more separators resolves to (its
\* first segment, the rest) whatever default namespace is supplied.
C6_Original ==
    (output[("bare")] # Pending /\ Contains(input.name, Sep))
    => output[("bare")] =
         Pairs(<< <<FirstSegment(input.name), AfterFirstSep(input.name)>> >>)

\* C6 (amended): a string with one or more separators resolves to (its first
\* segment, the rest) when no default namespace or an empty one is supplied;
\* a non-empty default namespace is kept and the whole string is the name.
C6_SplitQualified ==
    (output[("bare")] # Pending /\ Contains(input.name, Sep))
    => output[("bare")] =
         IF Truthy(input.namespace)
         THEN Pairs(<< <<input.namespace, input.name>> >>)
         ELSE Pairs(<< <<FirstSegment(input.name),
                         AfterFirstSep(input.name)>> >>)

\* A string of three segments has been resolved without a default namespace.
C6_Witness ==
    /\ output[("bare")] # Pending
    /\ input.namespace = None
    /\ Contains(AfterFirstSep(input.name), Sep)

\* C7 (as claimed): for every separator-free namespace ns and every name n,
\* n with default ns, "ns/n", the one-row table, ["ns/n"] and
\* [{namespace: ns, name: n}] all resolve to the single pair (ns, n).
C7_Original ==
    \A form \in Forms :
        (output[form] # Pending /\ input.namespace # None)
        => output[form] = Pairs(<< <<input.namespace, input.name>> >>)

\* C7 (amended): the same, for every non-empty separator-free namespace ns.
C7_SameCanonicalPair ==
    \A form \in Forms :
        (output[form] # Pending /\ Truthy(input.namespace))
        => output[form] = Pairs(<< <<input.namespace, input.name>> >>)

\* All five forms of a namespace "a" and a name with a separator are resolved.
C7_Witness ==
    /\ Truthy(input.namespace)
    /\ Contains(input.name, Sep)
    /\ \A form \in Forms : output[form] # Pending

-----------------------------------------------------------------------------
(* save_dataframe, load_dataframe and last, step by step: the catalog       *)
(* sessions they open and the backend calls they make.  The catalog is      *)
(* fixed while a call runs; the data the backends hold is left out here.    *)

\* The column header "value", a string without separator.
ValueCol == <<"value">>

\* The headers a frame's feature columns carry, in the sorted order in which
\* df.columns.difference(["time", "created_time"]) returns them:
\* "a/a" < "a/b" < "b" < "value".
HeaderOrder == << <<"a", Sep, "a">>, <<"a", Sep, "b">>, <<"b">>, ValueCol >>
Headers == {HeaderOrder[i] : i \in 1..Len(HeaderOrder)}

feature_columns(headers) == SelectSeq(HeaderOrder, LAMBDA h : h \in headers)

\* The catalogs a call may find: namespace "a" with any of the features
\* a/a and a/b.
IoNamespaces == {[name |-> <<"a">>, url |-> "v"]}
IoFeatures == {[namespace |-> <<"a">>, name |-> <<"a">>],
               [namespace |-> <<"a">>, name |-> <<"b">>]}

\* The name and namespace arguments of save_dataframe.
SaveNames == {None, <<"a">>, <<"a", Sep, "a">>, <<"a", Sep, "b">>}
SaveNamespaces == {None, <<"a">>}

\* What load_dataframe and last are asked for: a string, a list of at most
\* MaxList strings, or an object of another type.
RECURSIVE SeqsUpTo(_, _)
SeqsUpTo(S, n) ==
    IF n = 0 THEN {<<>>}
    ELSE LET shorter == SeqsUpTo(S, n - 1) IN
         shorter \cup {Append(q, x) : q \in {y \in shorter : Len(y) = n - 1},
                                      x \in S}

LoadStrings == {<<"a", Sep, "a">>, <<"a", Sep, "b">>, <<"b">>}
LoadObjects ==
    {StrObj(x) : x \in LoadStrings}
    \cup {ListObj(q) : q \in SeqsUpTo({StrObj(x) : x \in LoadStrings}, MaxList)}
    \cup {OtherObj}

\* session.query(model.Feature).filter_by(name=name, namespace=namespace)
feature_by_key(namespace, name) ==
    {r \in features : r.name = name /\ r.namespace = namespace}

\* The running call ends: it returns (res = "ok") or raises res.
Finish(res) ==
    /\ pc' = "idle"
    /\ result' = res

BackendCall(what, feature) == [call |-> what, feature |-> feature]

\* save_dataframe is entered: feature_columns is computed.  A frame with one
\* feature column is saved directly; any other frame takes the else branch.
save_dataframe(headers, name, namespace) ==
    LET cols == feature_columns(headers) IN
    /\ pc = "idle"
    /\ op' = "save_dataframe"
    /\ result' = "running"
    /\ backendLog' = <<>>
    /\ call' = [method |-> "save_dataframe", cols |-> cols,
                name |-> name, namespace |-> namespace,
                todo |-> IF Len(cols) = 1
                         THEN << [col |-> cols[1], name |-> name,
                                  namespace |-> namespace] >>
                         ELSE [i \in 1..Len(cols) |->
                                 [col |-> cols[i], name |-> None,
                                  namespace |-> None]],
                feature |-> None]
    /\ pc' = IF Len(cols) = 1 THEN "save_one" ELSE "save_check"
    /\ UNCHANGED <<catalogVars, sessions, pureVars,
                   backend>>

\* A plausible repair of the loop: each column is checked under its own header.
exists_each_column(cols, name, namespace) ==
    \A i \in 1..Len(cols) : _exists("Feature", None, cols[i])

\* The first loop of the else branch: every pass checks
\* _exists(model.Feature, namespace, name), the arguments, not the column.
exists_for_columns(cols, name, namespace) ==
    cols # <<>> => _exists("Feature", namespace, name)

save_check ==
    /\ pc = "save_check"
    /\ IF ~exists_for_columns(call.cols, call.name, call.namespace)
       THEN Finish("FeatureNotFound")
       ELSE IF call.todo = <<>> THEN Finish("ok")
       ELSE pc' = "save_one" /\ UNCHANGED result
    /\ UNCHANGED <<catalogVars, op, call, sessions, backendLog, pureVars,
                   backend>>

\* One frame with a single feature column: the name is settled, the feature
\* must exist, then a session is opened and the row fetched with .one().
save_one ==
    /\ pc = "save_one"
    /\ LET f == Head(call.todo)
           name == IF f.col = ValueCol THEN f.name ELSE f.col
           sp == _split_name(f.namespace, name) IN
       IF f.col = ValueCol /\ ~Truthy(f.name)
       THEN Finish("MissingName") /\ UNCHANGED <<call, sessions>>
       ELSE IF ~_exists("Feature", f.namespace, name)
       THEN Finish("FeatureNotFound") /\ UNCHANGED <<call, sessions>>
       ELSE IF feature_by_key(sp[1], sp[2]) = {}
       THEN Finish("NoResultFound") /\ UNCHANGED <<call, sessions>>
       ELSE /\ pc' = "save_backend"
            /\ sessions' = sessions + 1
            /\ call' = [call EXCEPT !.feature = sp]
            /\ UNCHANGED result
    /\ UNCHANGED <<catalogVars, op, backendLog, pureVars,
                   backend>>

\* feature.save(df) runs, inside the with block.
save_backend ==
    /\ pc = "save_backend"
    /\ backendLog' = Append(backendLog, BackendCall("save", call.feature))
    /\ pc' = "save_close"
    /\ UNCHANGED <<catalogVars, op, result, call, sessions, pureVars,
                   backend>>

\* The with block is left; the next column follows, or the call returns.
save_close ==
    /\ pc = "save_close"
    /\ sessions' = sessions - 1
    /\ call' = [call EXCEPT !.todo = Tail(call.todo)]
    /\ IF Tail(call.todo) = <<>> THEN Finish("ok")
       ELSE pc' = "save_one" /\ UNCHANGED result
    /\ UNCHANGED <<catalogVars, op, backendLog, pureVars,
                   backend>>

\* load_dataframe and last are entered: the features are unpacked.
read_call(method, obj) ==
    LET r == _unpack_list(obj, None) IN
    /\ pc = "idle"
    /\ op' = method
    /\ backendLog' = <<>>
    /\ call' = [method |-> method, obj |-> obj,
                todo |-> IF r.ok THEN r.pairs ELSE <<>>, feature |-> None]
    /\ IF ~r.ok THEN Finish(r.error)
       ELSE IF r.pairs = <<>> THEN pc' = "read_end" /\ result' = "running"
       ELSE pc' = "read_one" /\ result' = "running"
    /\ UNCHANGED <<catalogVars, sessions, pureVars,
                   backend>>

load_dataframe(features_arg) == read_call("load_dataframe", features_arg)

last(features_arg) == read_call("last", features_arg)

\* A plausible variant: the session is left before the backend is called.
read_one_released ==
    /\ pc = "read_one"
    /\ LET f == Head(call.todo) IN
       IF feature_by_key(f[1], f[2]) = {}
       THEN Finish("FeatureNotFound") /\ UNCHANGED call
       ELSE /\ pc' = "read_backend"
            /\ call' = [call EXCEPT !.feature = f]
            /\ UNCHANGED result
    /\ UNCHANGED <<catalogVars, op, sessions, backendLog, pureVars,
                   backend>>

\* One pass of the loop: a session is opened and the row fetched with
\* one_or_none(); without a row the call raises and the session is left.
read_one ==
    /\ pc = "read_one"
    /\ LET f == Head(call.todo) IN
       IF feature_by_key(f[1], f[2]) = {}
       THEN Finish("FeatureNotFound") /\ UNCHANGED <<call, sessions>>
       ELSE /\ pc' = "read_backend"
            /\ sessions' = sessions + 1
            /\ call' = [call EXCEPT !.feature = f]
            /\ UNCHANGED result
    /\ UNCHANGED <<catalogVars, op, backendLog, pureVars,
                   backend>>

\* feature.load(...) or feature.last() runs, inside the with block.
read_backend ==
    /\ pc = "read_backend"
    /\ backendLog' = Append(backendLog,
            BackendCall(IF call.method = "last" THEN "last" ELSE "load",
                        call.feature))
    /\ pc' = "read_close"
    /\ UNCHANGED <<catalogVars, op, result, call, sessions, pureVars,
                   backend>>

read_close ==
    /\ pc = "read_close"
    /\ sessions' = sessions - 1
    /\ call' = [call EXCEPT !.todo = Tail(call.todo)]
    /\ pc' = IF Tail(call.todo) = <<>> THEN "read_end" ELSE "read_one"
    /\ UNCHANGED <<catalogVars, op, result, backendLog, pureVars,
                   backend>>

\* After the loop: last returns its dict; load_dataframe combines the frames,
\* and pd.concat / functools.reduce raise when there is none.
read_end ==
    /\ pc = "read_end"
    /\ Finish(IF call.method = "load_dataframe" /\ backendLog = <<>>
              THEN "NothingToCombine" ELSE "ok")
    /\ UNCHANGED <<catalogVars, op, call, sessions, backendLog, pureVars,
                   backend>>

InitIO ==
    /\ namespaces = IoNamespaces
    /\ features \in SUBSET IoFeatures
    /\ op = "init"
    /\ result = "ok"
    /\ IoIdle
    /\ PureIdle

NextIO ==
    \/ \E headers \in SUBSET Headers, name \in SaveNames,
          namespace \in SaveNamespaces :
           save_dataframe(headers, name, namespace)
    \/ save_check
    \/ save_one
    \/ save_backend
    \/ save_close
    \/ \E obj \in LoadObjects : load_dataframe(obj)
    \/ \E obj \in LoadObjects : last(obj)
    \/ read_one
    \/ read_backend
    \/ read_close
    \/ read_end

SpecIO == InitIO /\ [][NextIO]_vars

\* The feature a column header names exists in the catalog.
HeaderExists(h) ==
    LET sp == _split_name(None, h) IN
    \E r \in features : r.namespace = sp[1] /\ r.name = sp[2]

SavesLogged == {i \in 1..Len(backendLog) : backendLog[i].call = "save"}

\* C4 (as claimed): a save_dataframe of two or more feature columns, one of
\* which names a feature that does not exist, fails, and no backend save is
\* performed for any column.
C4_MultiSaveValidatesFirst ==
    (/\ op = "save_dataframe"
     /\ Len(call.cols) >= 2
     /\ \E i \in 1..Len(call.cols) : ~HeaderExists(call.cols[i]))
    => /\ SavesLogged = {}
       /\ pc = "idle" => result # "ok"

BackendPcs == {"save_backend", "read_backend"}

\* C5 (as claimed): no catalog session is open at the moment the backend's
\* load, save or last is invoked.
C5_Original == pc \in BackendPcs => sessions = 0

\* C5 (amended): in load_dataframe, save_dataframe and last, the one session
\* used to look up the Feature row is still open when the backend's load,
\* save or last is invoked; it is released after the backend call returns,
\* and no session is open once the call has ended.
C5_SessionSpansBackend ==
    /\ pc \in BackendPcs => sessions = 1
    /\ pc = "idle" => sessions = 0

\* A backend load is about to run for the second feature of a list.
C5_Witness ==
    /\ pc = "read_backend"
    /\ call.method = "load_dataframe"
    /\ Len(backendLog) = 1

-----------------------------------------------------------------------------
(* load_dataframe on data: the frames the backends return and how the two   *)
(* modes combine them.  A frame is its index (a sequence of timestamps) and *)
(* its columns in order, each a name and the values by timestamp.           *)

NaN == "NaN"
Values == {"x", "y"}
Times == 1..MaxTime

\* A stored series: a value or a missing value at each of its timestamps.
SeriesSet == UNION {[T -> Values \cup {NaN}] : T \in SUBSET Times}

Max(S) == CHOOSE m \in S : \A x \in S : x <= m
Min(S) == CHOOSE m \in S : \A x \in S : m <= x

RECURSIVE SortedSeq(_)
SortedSeq(S) == IF S = {} THEN <<>> ELSE <<Min(S)>> \o SortedSeq(S \ {Min(S)})

Range(q) == {q[i] : i \in 1..Len(q)}

RECURSIVE Flatten(_)
Flatten(qs) == IF qs = <<>> THEN <<>> ELSE Head(qs) \o Flatten(Tail(qs))

Column(name, data) == [name |-> name, data |-> data]
Frame(index, cols) == [index |-> index, cols |-> cols]

\* feature.load(...): the backend's series as a frame with one column "value",
\* indexed by time in ascending order.
feature_load(series) ==
    Frame(SortedSeq(DOMAIN series), <<Column(<<ValueCol>>, series)>>)

\* df.rename(columns={"value": f"{namespace}/{name}"})
rename_value(df, label) ==
    Frame(df.index,
          [i \in 1..Len(df.cols) |->
              IF df.cols[i].name = <<ValueCol>>
              THEN Column(<<label>>, df.cols[i].data) ELSE df.cols[i]])

\* A column on a new index: missing where it has no row.
Reindex(col, times) ==
    Column(col.name,
           [t \in times |-> IF t \in DOMAIN col.data THEN col.data[t] ELSE NaN])

\* A plausible variant: the union keeps the order in which timestamps are
\* first seen, frame by frame, instead of sorting them.
RECURSIVE union_first_seen(_)
union_first_seen(dfs) ==
    IF dfs = <<>> THEN <<>>
    ELSE LET n == Len(dfs)
             before == union_first_seen(SubSeq(dfs, 1, n - 1)) IN
         before \o SelectSeq(dfs[n].index,
                             LAMBDA t : \A i \in 1..Len(before) : before[i] # t)

\* The union of time indexes that an outer join builds, in ascending order.
UnionIndex(dfs) == SortedSeq(UNION {Range(dfs[i].index) : i \in 1..Len(dfs)})

\* pd.concat(dfs, join="outer", axis=1): all columns side by side, names kept.
concat_outer(dfs) ==
    LET idx == UnionIndex(dfs) IN
    Frame(idx, Flatten([i \in 1..Len(dfs) |->
                  [j \in 1..Len(dfs[i].cols) |->
                      Reindex(dfs[i].cols[j], Range(idx))]]))

ColNames(df) == {df.cols[i].name : i \in 1..Len(df.cols)}

\* dd.merge(left, right, left_index=True, right_index=True, how="outer"):
\* a column name found on both sides gets the suffix _x on the left and _y
\* on the right.
merge_outer(left, right) ==
    LET idx == UnionIndex(<<left, right>>)
        suffixed(col, others, suffix) ==
            Reindex(Column(IF col.name \in others
                           THEN Append(col.name, suffix) ELSE col.name,
                           col.data),
                    Range(idx)) IN
    Frame(idx,
          [i \in 1..Len(left.cols) |->
              suffixed(left.cols[i], ColNames(right), "_x")]
          \o [i \in 1..Len(right.cols) |->
              suffixed(right.cols[i], ColNames(left), "_y")])

\* functools.reduce(merge, dfs): a left fold, the first frame as the start.
RECURSIVE reduce_merge(_, _)
reduce_merge(acc, rest) ==
    IF rest = <<>> THEN acc
    ELSE reduce_merge(merge_outer(acc, Head(rest)), Tail(rest))

\* A plausible slip: gaps are left as they are.
no_ffill(df) == df

\* df.ffill(): down each column, a missing value takes the last value that is
\* not missing in the rows above it.
ffill(df) ==
    LET pos(t) == CHOOSE i \in 1..Len(df.index) : df.index[i] = t
        filled(data) ==
            [t \in DOMAIN data |->
                LET above == {j \in 1..pos(t) : data[df.index[j]] # NaN} IN
                IF above = {} THEN NaN ELSE data[df.index[Max(above)]]] IN
    Frame(df.index,
          [i \in 1..Len(df.cols) |->
              Column(df.cols[i].name, filled(df.cols[i].data))])

\* The loop of load_dataframe over the requested (namespace, name) pairs, then
\* the combination for the mode.
load_frames(store, pairs) ==
    [i \in 1..Len(pairs) |->
        rename_value(feature_load(store[pairs[i]]),
                     Qualified(pairs[i][1], pairs[i][2]))]

load_result(store, pairs, mode) ==
    IF \E i \in 1..Len(pairs) : feature_by_key(pairs[i][1], pairs[i][2]) = {}
    THEN Raise("FeatureNotFound")
    ELSE IF pairs = <<>> THEN Raise("NothingToCombine")
    ELSE LET dfs == load_frames(store, pairs) IN
         IF mode = "pandas" THEN ffill(concat_outer(dfs))
         ELSE ffill(reduce_merge(Head(dfs), Tail(dfs)))

Modes == {"pandas", "dask"}
LoadKeys == {<< <<"a">>, <<"a">> >>, << <<"a">>, <<"b">> >>}
LoadRequests == SeqsUpTo(LoadKeys, MaxList) \ {<<>>}

InitLoad ==
    /\ namespaces = IoNamespaces
    /\ features = IoFeatures
    /\ input \in [store : [LoadKeys -> SeriesSet], request : LoadRequests]
    /\ output = [m \in Modes |-> Pending]
    /\ op = "init"
    /\ result = "ok"
    /\ IoIdle

\* load_dataframe(features, mode=mode) on the stored series.
load_data(mode) ==
    /\ output[mode] = Pending
    /\ output' = [output EXCEPT
                    ![mode] = load_result(input.store, input.request, mode)]
    /\ op' = "load_dataframe"
    /\ UNCHANGED <<input, catalogVars, result, ioVars>>

NextLoad == \E mode \in Modes : load_data(mode)

SpecLoad == InitLoad /\ [][NextLoad]_vars

\* The timestamps of all requested features.
RequestedTimes ==
    UNION {DOMAIN input.store[input.request[i]] : i \in 1..Len(input.request)}

\* The value of series s at the latest of its timestamps that is <= t.
LatestOwn(s, t) ==
    LET own == {u \in DOMAIN s : u <= t} IN
    IF own = {} THEN NaN ELSE s[Max(own)]

\* The latest value of s at or before t that is not missing.
LatestKnown(s, t) ==
    LET known == {u \in DOMAIN s : u <= t /\ s[u] # NaN} IN
    IF known = {} THEN NaN ELSE s[Max(known)]

C10_ModesAgree ==
    (\A m \in Modes : output[m] # Pending)
    => output.pandas = output.dask

\* The orders in which a list of n features can be requested.
Perms(n) == {p \in [1..n -> 1..n] : \A i, j \in 1..n : p[i] = p[j] => i = j}
Permuted(q, p) == [i \in 1..Len(q) |-> q[p[i]]]

\* C11: for every permutation of the requested feature list, load_dataframe
\* returns the same time index and the same columns, name and values at every
\* timestamp; only the order of the columns may differ.
C11_OrderIndependent ==
    \A m \in Modes :
        output[m] # Pending =>
            \A p \in Perms(Len(input.request)) :
                LET r == load_result(input.store,
                                     Permuted(input.request, p), m) IN
                /\ r.index = output[m].index
                /\ Range(r.cols) = Range(output[m].cols)
                /\ Len(r.cols) = Len(output[m].cols)

\* Two different features sampled at different times have been loaded in both
\* modes, the first one filled forward at a timestamp only the second has.
C11_Witness ==
    /\ \A m \in Modes : output[m] # Pending
    /\ Len(input.request) = 2
    /\ input.request[1] # input.request[2]
    /\ \E i \in {1} : \E t \in RequestedTimes :
          /\ t \notin DOMAIN input.store[input.request[i]]
          /\ output.dask.cols[i].data[t] # NaN

-----------------------------------------------------------------------------
(* Single-feature save_dataframe *)

\* The name the single-feature branch settles on: the name argument under the
\* header "value", the column header otherwise.
SavedName == IF call.cols[1] = ValueCol THEN call.name ELSE call.cols[1]

\* The (namespace, name) the call resolves its target to.
SaveTarget == _split_name(call.namespace, SavedName)

\* A save_dataframe of one feature column that names a target has ended.
SingleSaveEnded ==
    /\ op = "save_dataframe"
    /\ pc = "idle"
    /\ Len(call.cols) = 1
    /\ Truthy(SavedName)

\* C12 (as claimed): a single-feature save_dataframe whose resolved
\* (namespace, name) matches no Feature fails with the feature-not-found error
\* without a backend save; when the Feature exists, exactly one backend save,
\* of that feature, is made.
C12_SingleSave ==
    SingleSaveEnded =>
        IF feature_by_key(SaveTarget[1], SaveTarget[2]) = {}
        THEN result = "FeatureNotFound" /\ backendLog = <<>>
        ELSE result = "ok" /\ backendLog = <<BackendCall("save", SaveTarget)>>

-----------------------------------------------------------------------------
(* Updates and deletes on a catalog that earlier calls have filled: each    *)
(* namespace was created with a url and a description, each feature with a  *)
(* description, and every feature's namespace exists.                       *)

EditNamespaces ==
    {[name |-> n, url |-> "w", description |-> "w"] : n \in {<<"a">>, <<"b">>}}
EditFeatures ==
    {[namespace |-> k[1], name |-> k[2], description |-> "w"] :
        k \in {<< <<"a">>, <<"a">> >>, << <<"b">>, <<"a">> >>,
               << <<"a">>, <<"b">> >>}}

\* The keyword options of the update calls: url is valid only on creation.
EditKwargs == KwargsOver({"description", "url", "bogus"})

InitEdit ==
    /\ namespaces \in SUBSET EditNamespaces
    /\ features \in SUBSET EditFeatures
    /\ \A f \in features : \E n \in namespaces : n.name = f.namespace
    /\ op = "init"
    /\ result = "ok"
    /\ IoIdle
    /\ PureIdle

NextEdit ==
    \/ \E name \in Names, kwargs \in EditKwargs :
           update_namespace(name, kwargs)
    \/ \E name \in Names, namespace \in NsArgs, kwargs \in EditKwargs :
           update_feature(name, namespace, kwargs)
    \/ \E name \in Names : delete_namespace(name)
    \/ \E name \in Names, namespace \in NsArgs : delete_feature(name, namespace)

SpecEdit == InitEdit /\ [][NextEdit]_vars

\* Row new is row old with the payload's fields written and nothing else
\* touched: the key columns and every column outside the payload are as before.
OnlyPayloadChanged(old, new, payload, keys) ==
    /\ DOMAIN new = DOMAIN old \cup DOMAIN payload
    /\ \A k \in DOMAIN payload : new[k] = payload[k]
    /\ \A k \in DOMAIN old \ DOMAIN payload : new[k] = old[k]
    /\ \A k \in keys : new[k] = old[k]

\* In table rows exactly one row r was rewritten, as the payload says.
OneRowUpdated(rows, rowsAfter, payload, keys) ==
    \E r \in rows : \E r2 \in rowsAfter :
        /\ rowsAfter = (rows \ {r}) \cup {r2}
        /\ OnlyPayloadChanged(r, r2, payload, keys)

\* C13: a successful update_namespace or update_feature writes the payload's
\* fields into one row and changes nothing else: that row's name, namespace
\* and url and its fields outside the payload are as before, and so is every
\* other Namespace and Feature row.
C13_UpdateFrame ==
    [][/\ op' = "update_namespace" =>
            \A name \in Names, kwargs \in EditKwargs :
                \/ result' = "ok" =>
                      /\ features' = features
                      /\ OneRowUpdated(namespaces, namespaces', kwargs,
                                       {"name", "url"})
                \/ ~update_namespace(name, kwargs)
       /\ op' = "update_feature" =>
            \A name \in Names, namespace \in NsArgs, kwargs \in EditKwargs :
                \/ result' = "ok" =>
                      /\ namespaces' = namespaces
                      /\ OneRowUpdated(features, features', kwargs,
                                       {"name", "namespace"})
                \/ ~update_feature(name, namespace, kwargs)]_vars

\* An update has rewritten the description of one of several namespaces that
\* have features.
C13_Witness ==
    /\ op = "update_namespace"
    /\ result = "ok"
    /\ Cardinality(namespaces) = 2
    /\ features # {}
    /\ \E n \in namespaces : n.description = "v"
    /\ \E n \in namespaces : n.description = "w"

\* The rows the generic update and delete look at for a call's arguments.
Matched(cls, namespace, name) ==
    LET sp == _split_name(namespace, name) IN Query(cls, sp[1], sp[2])

\* Exactly the one matched row left its table; all other rows are as before.
OneRowDeleted(cls, namespace, name) ==
    \E r \in Matched(cls, namespace, name) :
        /\ Matched(cls, namespace, name) = {r}
        /\ IF cls = "Namespace"
           THEN namespaces' = namespaces \ {r} /\ features' = features
           ELSE features' = features \ {r} /\ namespaces' = namespaces

\* C14 (as claimed): an update or delete of a namespace or feature that
\* matches no row fails with the not-found error and leaves the catalog
\* unchanged; a successful delete_feature or delete_namespace removes exactly
\* the one matched row and leaves every other row unchanged.
C14_NotFoundAndDelete ==
    [][/\ op' = "update_namespace" =>
            \A name \in Names, kwargs \in EditKwargs :
                \/ (/\ Matched("Namespace", None, name) = {}
                    /\ _validate_kwargs(kwargs, UpdateNamespaceValid, {}) = "ok")
                   => result' = "NotFound" /\ CatalogUnchanged
                \/ ~update_namespace(name, kwargs)
       /\ op' = "update_feature" =>
            \A name \in Names, namespace \in NsArgs, kwargs \in EditKwargs :
                \/ (/\ Matched("Feature", namespace, name) = {}
                    /\ _validate_kwargs(kwargs, UpdateFeatureValid, {}) = "ok")
                   => result' = "NotFound" /\ CatalogUnchanged
                \/ ~update_feature(name, namespace, kwargs)
       /\ op' = "delete_namespace" =>
            \A name \in Names :
                \/ /\ Matched("Namespace", None, name) = {}
                      => result' = "NotFound" /\ CatalogUnchanged
                   /\ result' = "ok" => OneRowDeleted("Namespace", None, name)
                \/ ~delete_namespace(name)
       /\ op' = "delete_feature" =>
            \A name \in Names, namespace \in NsArgs :
                \/ /\ Matched("Feature", namespace, name) = {}
                      => result' = "NotFound" /\ CatalogUnchanged
                   /\ result' = "ok" => OneRowDeleted("Feature", namespace, name)
                \/ ~delete_feature(name, namespace)]_vars

-----------------------------------------------------------------------------
(* Writing and reading back: save_dataframe of one feature column, the      *)
(* points the feature's backend keeps, and load_dataframe with time_travel. *)
(* A run is a number of saves followed by one load.                         *)

CreatedTimes == 1..MaxCreated
\* time_travel=None
NoTimeTravel == 0

FeatureA == << <<"a">>, <<"a">> >>
FeatureB == << <<"a">>, <<"b">> >>

Point(feature, time, created_time, value) ==
    [feature |-> feature, time |-> time, created_time |-> created_time,
     value |-> value]

\* feature.save(df): every row of the frame becomes a point; a point with the
\* same time and created_time is replaced.
backend_save(rows, feature, series, created_time) ==
    {r \in rows : ~(/\ r.feature = feature
                    /\ r.time \in DOMAIN series
                    /\ r.created_time = created_time)}
    \cup {Point(feature, t, created_time, series[t]) : t \in DOMAIN series}

\* feature.load(time_travel=...): for each time the value whose created_time
\* is the latest one not after time_travel, the latest of all when unset.
backend_load(rows, feature, time_travel) ==
    LET visible == {r \in rows :
                       /\ r.feature = feature
                       /\ time_travel # NoTimeTravel
                            => r.created_time <= time_travel}
        latest(t) == CHOOSE r \in visible :
                        /\ r.time = t
                        /\ \A q \in visible :
                              q.time = t => q.created_time <= r.created_time IN
    [t \in {r.time : r \in visible} |-> latest(t).value]

\* What the backends hold before the first save: nothing for a/a; for a/b a
\* value at time 1 and, at time 2, a missing value recorded first and a value
\* recorded last.
InitialRows ==
    {Point(FeatureB, 1, 1, "x"), Point(FeatureB, 2, 1, NaN),
     Point(FeatureB, 2, MaxCreated, "y")}

\* The frames saved: one feature column, one row.
SavedSeries == {s \in SeriesSet : \E t \in {1, 2} : DOMAIN s = {t}}
\* The ways the target a/a is named: by the column header, or by name and
\* namespace under the header "value".
SaveCalls ==
    {[col |-> <<"a", Sep, "a">>, name |-> None, namespace |-> None],
     [col |-> ValueCol, name |-> <<"a">>, namespace |-> <<"a">>],
     [col |-> ValueCol, name |-> <<"b">>, namespace |-> None]}
TimeRequests == {<<FeatureA>>, <<FeatureA, FeatureB>>}

InitTime ==
    /\ namespaces = IoNamespaces
    /\ features = IoFeatures
    /\ op = "init"
    /\ result = "ok"
    /\ pc = "idle" /\ call = Idle /\ sessions = 0 /\ backendLog = <<>>
    /\ backend = InitialRows
    /\ input = Idle
    /\ output = Pending

\* A plausible slip: the rename is left out, and the backend finds no value
\* column under a header other than "value".
value_column_unrenamed(col, series) ==
    IF col = ValueCol THEN series ELSE [t \in DOMAIN series |-> NaN]

\* df.rename(columns={name: "value"}): the feature column's values are what
\* the backend receives as "value".
value_column(col, series) == series

\* save_dataframe(df, name, namespace) of a frame with the one feature column
\* c.col, a time and a created_time column: the single-feature branch as a
\* whole.
save_series(c, series, created_time) ==
    LET name == IF c.col = ValueCol THEN c.name ELSE c.col
        sp == _split_name(c.namespace, name) IN
    /\ output = Pending
    /\ Len(backendLog) < MaxSaves
    /\ op' = "save_dataframe"
    /\ IF c.col = ValueCol /\ ~Truthy(c.name)
       THEN result' = "MissingName" /\ UNCHANGED <<backend, backendLog, call>>
       ELSE IF ~_exists("Feature", c.namespace, name)
       THEN result' = "FeatureNotFound"
            /\ UNCHANGED <<backend, backendLog, call>>
       ELSE IF feature_by_key(sp[1], sp[2]) = {}
       THEN result' = "NoResultFound"
            /\ UNCHANGED <<backend, backendLog, call>>
       ELSE /\ result' = "ok"
            /\ backend' = backend_save(backend, sp,
                                        value_column(c.col, series), created_time)
            /\ backendLog' = Append(backendLog, BackendCall("save", sp))
            /\ call' = c @@ [series |-> series, created_time |-> created_time]
    /\ UNCHANGED <<catalogVars, pc, sessions, input, output>>

\* A plausible slip: time_travel is not handed on to the backends.
load_series_latest(request, time_travel, mode) ==
    /\ output = Pending
    /\ op' = "load_dataframe"
    /\ result' = "ok"
    /\ output' = [request |-> request, time_travel |-> time_travel,
                  mode |-> mode,
                  frame |-> load_result(
                      [k \in LoadKeys |-> backend_load(backend, k, NoTimeTravel)],
                      request, mode)]
    /\ UNCHANGED <<catalogVars, ioVars, input>>

\* load_dataframe(features, time_travel=time_travel, mode=mode): every
\* feature's frame is what its backend returns for that time_travel.
load_series(request, time_travel, mode) ==
    /\ output = Pending
    /\ op' = "load_dataframe"
    /\ result' = "ok"
    /\ output' = [request |-> request, time_travel |-> time_travel,
                  mode |-> mode,
                  frame |-> load_result(
                      [k \in LoadKeys |-> backend_load(backend, k, time_travel)],
                      request, mode)]
    /\ UNCHANGED <<catalogVars, ioVars, input>>

NextTime ==
    \/ \E c \in SaveCalls, series \in SavedSeries, created_time \in CreatedTimes :
           save_series(c, series, created_time)
    \/ \E request \in TimeRequests, mode \in Modes,
          time_travel \in {NoTimeTravel} \cup CreatedTimes :
           load_series(request, time_travel, mode)

SpecTime == InitTime /\ [][NextTime]_vars

\* The feature the last successful save named.
TimeTarget ==
    _split_name(call.namespace,
                IF call.col = ValueCol THEN call.name ELSE call.col)

\* A load without time_travel follows a successful save.
RoundTrip ==
    /\ op = "load_dataframe"
    /\ output # Pending
    /\ call # Idle
    /\ output.time_travel = NoTimeTravel

\* The frame's column i is named after the i-th requested feature.
NamedAfter(i) ==
    output.frame.cols[i].name =
        <<Qualified(output.request[i][1], output.request[i][2])>>

\* C15 (as claimed): after a single-feature save_dataframe, load_dataframe of
\* the same feature returns, in the column "namespace/name", at every saved
\* timestamp the value that was saved.
C15_Original ==
    RoundTrip =>
        \A i \in 1..Len(output.request) :
            output.request[i] = TimeTarget =>
                /\ NamedAfter(i)
                /\ \A t \in DOMAIN call.series :
                       output.frame.cols[i].data[t] = call.series[t]

\* No point of the feature for time t was recorded later than created_time.
LatestRecording(feature, t, created_time) ==
    \A r \in backend :
        r.feature = feature /\ r.time = t => r.created_time <= created_time

\* C15 (amended): after a single-feature save_dataframe (target named by name
\* and namespace or by the column header), load_dataframe of the same feature
\* without time_travel returns, in the column "namespace/name", at every saved
\* timestamp whose saved value is not missing and for which the backend holds
\* no point with a later created_time, the value that was saved.
C15_RoundTrip ==
    RoundTrip =>
        \A i \in 1..Len(output.request) :
            output.request[i] = TimeTarget =>
                /\ NamedAfter(i)
                /\ \A t \in DOMAIN call.series :
                       (/\ call.series[t] # NaN
                        /\ LatestRecording(TimeTarget, t, call.created_time))
                       => output.frame.cols[i].data[t] = call.series[t]

\* A value saved under the column header, after an earlier save, has been
\* read back together with a second feature.
C15_Witness ==
    /\ RoundTrip
    /\ call.col # ValueCol
    /\ Len(backendLog) = 2
    /\ Len(output.request) = 2
    /\ \E t \in DOMAIN call.series :
          /\ call.series[t] # NaN
          /\ LatestRecording(TimeTarget, t, call.created_time)
          /\ output.frame.cols[1].data[t] = call.series[t]

\* The points the backend holds for a feature and a time.
Recordings(feature, t) == {r \in backend : r.feature = feature /\ r.time = t}

\* load_dataframe handed its time_travel to the backend of every requested
\* feature: each column is that backend's series, filled forward.
TimeTravelForwarded ==
    \A i \in 1..Len(output.request) :
        \A t \in Range(output.frame.index) :
            output.frame.cols[i].data[t] =
                LatestKnown(backend_load(backend, output.request[i],
                                         output.time_travel), t)

\* With exactly the recordings V1 at C1 and V2 at C2 > C1 for time T: V1 is
\* returned for time_travel in [C1, C2), V2 for time_travel >= C2 or unset.
\* The flag says whether V1 and V2 may be missing values.
TimeTravelValues(missingToo) ==
    \A i \in 1..Len(output.request), T \in Times :
        \A r1, r2 \in Recordings(output.request[i], T) :
            (/\ Recordings(output.request[i], T) = {r1, r2}
             /\ r1.created_time < r2.created_time
             /\ missingToo \/ (r1.value # NaN /\ r2.value # NaN))
            => /\ (/\ output.time_travel # NoTimeTravel
                   /\ r1.created_time <= output.time_travel
                   /\ output.time_travel < r2.created_time)
                  => output.frame.cols[i].data[T] = r1.value
               /\ (\/ output.time_travel = NoTimeTravel
                   \/ output.time_travel >= r2.created_time)
                  => output.frame.cols[i].data[T] = r2.value

\* C16 (as claimed): after V1 was saved for time T with created_time C1 and
\* then V2 for the same T with created_time C2 > C1, load_dataframe with
\* time_travel in [C1, C2) returns V1 for T and with time_travel >= C2 or
\* unset returns V2, the time_travel being handed unchanged to every
\* requested feature's backend.
C16_Original ==
    (op = "load_dataframe" /\ output # Pending)
    => TimeTravelValues(TRUE) /\ TimeTravelForwarded

\* C16 (amended): the same for values V1 and V2 that are not missing; each
\* column is its backend's series for the caller's time_travel, filled
\* forward, so a missing V1 or V2 is replaced by the feature's previous value.
C16_TimeTravel ==
    (op = "load_dataframe" /\ output # Pending)
    => TimeTravelValues(FALSE) /\ TimeTravelForwarded

\* Two values saved for one time of a/a; a load of both features with
\* time_travel before the second recording returned the first.
C16_Witness ==
    /\ op = "load_dataframe"
    /\ output # Pending
    /\ Len(output.request) = 2
    /\ output.time_travel = 1
    /\ \E T \in Times : \E r1, r2 \in Recordings(FeatureA, T) :
          /\ r1.created_time = 1 /\ r2.created_time > 1
          /\ r1.value # NaN /\ r2.value # NaN /\ r1.value # r2.value
          /\ output.frame.cols[1].data[T] = r1.value

-----------------------------------------------------------------------------
(* Two FeatureStore instances on one catalog: one runs                      *)
(* create_feature(f, namespace=ns), the other delete_namespace(ns).  Every  *)
(* session_scope block is one atomic step; the steps of the two calls       *)
(* interleave freely.                                                       *)

RaceNames == {<<"a">>, <<"b">>}

InitRace ==
    /\ namespaces \in SUBSET EditNamespaces
    /\ features \in SUBSET EditFeatures
    /\ \A f \in features : \E n \in namespaces : n.name = f.namespace
    /\ call \in [name : RaceNames, namespace : RaceNames]
    /\ pc = [creator |-> "exists", deleter |-> "list_features"]
    /\ result = [creator |-> "running", deleter |-> "running"]
    /\ op = "init"
    /\ sessions = 0
    /\ backendLog = <<>>
    /\ backend = Idle
    /\ PureIdle

\* A step of one of the two calls: where the call stands next, how it ended
\* if it did, and the tables the step's session leaves.
RaceStep(who, step, next, res, ns, fs) ==
    /\ pc[who] = step
    /\ pc' = [pc EXCEPT ![who] = next]
    /\ result' = [result EXCEPT ![who] = res]
    /\ namespaces' = ns
    /\ features' = fs
    /\ op' = step
    /\ UNCHANGED <<call, sessions, backendLog, backend, pureVars>>

\* _create, first session: self._exists(model.Namespace, namespace=namespace).
create_exists ==
    LET sp == _split_name(call.namespace, call.name) IN
    IF _exists("Namespace", sp[1], None)
    THEN RaceStep("creator", "exists", "add", "running", namespaces, features)
    ELSE RaceStep("creator", "exists", "done", "NamespaceNotFound",
                  namespaces, features)

\* _create, second session: session.add(obj) and the commit.
create_add ==
    LET sp == _split_name(call.namespace, call.name) IN
    \E o \in Insert("Feature", [name |-> sp[2], namespace |-> sp[1]]) :
        RaceStep("creator", "add", "done", o.result, o.namespaces, o.features)

\* delete_namespace, first session: self.list_features(namespace=name).
delete_list_features ==
    IF list_features(call.namespace, None) # {}
    THEN RaceStep("deleter", "list_features", "done", "NonEmptyNamespace",
                  namespaces, features)
    ELSE RaceStep("deleter", "list_features", "delete", "running",
                  namespaces, features)

\* delete_namespace, second session: self._delete(model.Namespace, name=name).
delete_session ==
    LET o == _delete("Namespace", None, call.namespace) IN
    RaceStep("deleter", "delete", "done", o.result, o.namespaces, o.features)

NextRace ==
    \/ create_exists
    \/ create_add
    \/ delete_list_features
    \/ delete_session

SpecRace == InitRace /\ [][NextRace]_vars

\* C17 (as claimed): no interleaving of create_feature(f, namespace=ns) with
\* delete_namespace(ns) reaches a state in which the Feature ns/f exists while
\* the Namespace ns does not.
C17_NoOrphanUnderInterleaving ==
    ~ /\ \E f \in features :
            f.namespace = call.namespace /\ f.name = call.name
      /\ \A n \in namespaces : n.name # call.namespace

\* The Features that carry an unqualified name, in any namespace.
Named(name) == {f \in features : f.name = name}
Unqualified == {n \in Names : Truthy(n) /\ ~Contains(n, Sep)}

\* C18: update_feature or delete_feature with an unqualified name and no
\* namespace fails without touching a row when Features with that name exist
\* in two or more namespaces; when exactly one Feature has that name, that row
\* is the one deleted, or the one updated by a call with valid options.
C18_AmbiguousNameRejected ==
    [][/\ op' = "update_feature" =>
            \A name \in Unqualified, kwargs \in EditKwargs :
                \/ /\ Cardinality(Named(name)) >= 2
                      => result' # "ok" /\ CatalogUnchanged
                   /\ (/\ Cardinality(Named(name)) = 1
                       /\ _validate_kwargs(kwargs, UpdateFeatureValid, {}) = "ok")
                      => /\ result' = "ok"
                         /\ namespaces' = namespaces
                         /\ \E r \in Named(name) :
                               features' = (features \ {r})
                                   \cup {update_from_dict(r, kwargs)}
                \/ ~update_feature(name, None, kwargs)
       /\ op' = "delete_feature" =>
            \A name \in Unqualified :
                \/ /\ Cardinality(Named(name)) >= 2
                      => result' # "ok" /\ CatalogUnchanged
                   /\ Cardinality(Named(name)) = 1
                      => /\ result' = "ok"
                         /\ namespaces' = namespaces
                         /\ features' = features \ Named(name)
                \/ ~delete_feature(name, None)]_vars

\* update_feature("a", description=...) was refused while a/a and b/a exist.
C18_Witness ==
    /\ op = "update_feature"
    /\ result = "MultipleResultsFound"
    /\ Cardinality(Named(<<"a">>)) = 2
    /\ \A f \in features : f.description = "w"

-----------------------------------------------------------------------------
(* The Identifier Resolver on tables and lists.                             *)

\* Rows of a table as (namespace cell, name cell); a table without a
\* namespace column has no such cell, and only the name cell is read.
TableRows == {<<ns, n>> : ns \in {None, <<"a">>, <<"b">>},
                          n \in {<<"a">>, <<"a", Sep, "b">>}}
ListItems ==
    {StrObj(<<"a">>), StrObj(<<"a", Sep, "b">>), DictObj(<<"a">>, <<"b">>),
     DictObj(None, <<"a", Sep, "b">>), OtherObj}

UnpackObjects ==
    {DfObj(hasName, hasNs, rows) :
        hasName \in BOOLEAN, hasNs \in BOOLEAN, rows \in SeqsUpTo(TableRows, MaxList)}
    \cup {ListObj(items) : items \in SeqsUpTo(ListItems, MaxList)}
    \cup {OtherObj}

InitUnpack ==
    /\ input \in [obj : UnpackObjects, namespace : {None, <<"a">>}]
    /\ output = Pending
    /\ namespaces = {}
    /\ features = {}
    /\ op = "init"
    /\ result = "ok"
    /\ IoIdle

\* FeatureStore._unpack_list(obj, namespace)
unpack ==
    /\ output = Pending
    /\ output' = _unpack_list(input.obj, input.namespace)
    /\ op' = "_unpack_list"
    /\ UNCHANGED <<input, catalogVars, result, ioVars>>

NextUnpack == unpack

SpecUnpack == InitUnpack /\ [][NextUnpack]_vars

\* The pair a list element stands for.
ItemPair(item) ==
    IF item.kind = "str" THEN _split_name(input.namespace, item.s)
    ELSE _split_name(item.namespace, item.name)

\* C19: a table with a name column and a list of strings and mappings resolve
\* to exactly one pair per row or element, in input order, a table row giving
\* (its namespace cell if the table has a namespace column, else the default
\* namespace, its name cell); a table without a name column, a list holding
\* an element that is neither string nor mapping, and an input of any other
\* type fail with the invalid-input error and return no pairs.
C19_TableAndList ==
    output # Pending =>
        LET obj == input.obj IN
        CASE obj.kind = "df" ->
                IF ~obj.hasName THEN output = Raise("InvalidInput")
                ELSE /\ output.ok
                     /\ Len(output.pairs) = Len(obj.rows)
                     /\ \A i \in 1..Len(obj.rows) :
                           output.pairs[i] =
                               <<IF obj.hasNs THEN obj.rows[i][1]
                                 ELSE input.namespace, obj.rows[i][2]>>
          [] obj.kind = "list" ->
                IF \E i \in 1..Len(obj.items) : obj.items[i] = OtherObj
                THEN output = Raise("InvalidInput")
                ELSE /\ output.ok
                     /\ Len(output.pairs) = Len(obj.items)
                     /\ \A i \in 1..Len(obj.items) :
                           output.pairs[i] = ItemPair(obj.items[i])
          [] OTHER -> output = Raise("InvalidInput")

\* A list whose second element is of another type was refused after its first
\* element had been resolved.
C19_Witness ==
    /\ output = Raise("InvalidInput")
    /\ input.obj.kind = "list"
    /\ Len(input.obj.items) = 2
    /\ input.obj.items[1].kind = "str"
    /\ input.obj.items[2] = OtherObj

====
